---- MODULE Spec2Model ----
(***************************************************************************)
(* Model of the YAML loader nodes of src/nodes: YAMLLoaderNode             *)
(* (yaml_loader_node.py) and NEW_YAMLLoaderNode (new_yaml_loader_node.py). *)
(*                                                                         *)
(* Python values are records tagged by their type.  A Python str is a      *)
(* sequence of one-character strings, so that replace, lower, "in" and     *)
(* concatenation are computed character by character.  A Python dict is    *)
(* the sequence of its (key, value) pairs in insertion order, keys         *)
(* pairwise distinct; a Python list is the sequence of its elements.       *)
(***************************************************************************)
EXTENDS Integers, Sequences, FiniteSets, TLC

VARIABLES
    node,                     \* "old": YAMLLoaderNode, "new": NEW_YAMLLoaderNode
    parameters,               \* self.parameters: the names of the slots, in order
    yaml_file,                \* parameter_values["yaml_file"]
    key_filter,               \* parameter_values["key_filter"]
    status_message,           \* parameter_values["status_message"]
    yaml_data,                \* the value of the yaml_data slot
    slot_values,              \* the values of the dynamically created slots
                              \* that exist (no code reads the entry that a
                              \* removed slot leaves behind in the dicts)
    yaml_dictionary,          \* NEW_YAMLLoaderNode.yaml_dictionary
    yaml_list,                \* NEW_YAMLLoaderNode.yaml_list
    op,                       \* the handler that ran last
    loaded,                   \* what reading yaml_file gave in the last pass
    raised,                   \* the exception the last handler raised, or "none"
    modified,                 \* modified_parameters_set when the handler ended
    added,                    \* names given to add_parameter by the last handler
    removed,                  \* names given to remove_parameter_element by it
    last_good,                \* document and filter of the last successful pass
    fdoc,                     \* _flatten_yaml harness: the argument
    fres,                     \* _flatten_yaml harness: the result
    fpc,                      \* _flatten_yaml harness: "call" or "done"
    incoming_connections,     \* ExampleNode.incoming_connections
    free_text,                \* ExampleNode: parameter_values["free_text"]
    connections,              \* the incoming connections the host holds for
                              \* each parameter of the ExampleNode
    validation                \* what validate_before_workflow_run returned
                              \* since the last event, if it has run

vars == <<node, parameters, yaml_file, key_filter, status_message, yaml_data,
          slot_values, yaml_dictionary, yaml_list, op, loaded, raised,
          modified, added, removed, last_good, fdoc, fres, fpc,
          incoming_connections, free_text, connections, validation>>

nodeVars == <<node, parameters, yaml_file, key_filter, status_message,
              yaml_data, slot_values, yaml_dictionary, yaml_list, op, loaded,
              raised, modified, added, removed, last_good>>

flatVars == <<fdoc, fres, fpc>>

exampleVars == <<incoming_connections, free_text, connections, validation>>

----------------------------------------------------------------------------
(* Python values *)

NoneV == [t |-> "none"]
IntV(n) == [t |-> "int", n |-> n]
StrV(s) == [t |-> "str", s |-> s]
DictV(items) == [t |-> "dict", items |-> items]
ListV(elems) == [t |-> "list", elems |-> elems]

IsDict(v) == v.t = "dict"
IsList(v) == v.t = "list"
IsScalar(v) == v.t \in {"none", "int", "str"}

\* bool(v) for the values the handlers test: None, str, dict, list
Truthy(v) ==
    CASE v.t = "none" -> FALSE
      [] v.t = "str" -> v.s # <<>>
      [] v.t = "dict" -> v.items # <<>>
      [] v.t = "list" -> v.elems # <<>>
      [] v.t = "int" -> v.n # 0

RECURSIVE Concat(_)
Concat(ss) == IF ss = <<>> THEN <<>> ELSE Head(ss) \o Concat(Tail(ss))

KeySet(d) == {d.items[i][1] : i \in 1..Len(d.items)}
Lookup(d, k) == (CHOOSE i \in 1..Len(d.items) : d.items[i][1] = k)

\* d[k] = v on a dict: an existing key keeps its position, a new key goes last
DictPut(items, k, v) ==
    IF \E i \in 1..Len(items) : items[i][1] = k
    THEN [i \in 1..Len(items) |-> IF items[i][1] = k THEN <<k, v>> ELSE items[i]]
    ELSE Append(items, <<k, v>>)

\* dict(items) on a list of pairs
RECURSIVE DictFrom(_, _)
DictFrom(acc, items) ==
    IF items = <<>> THEN acc
    ELSE DictFrom(DictPut(acc, Head(items)[1], Head(items)[2]), Tail(items))

dict(items) == DictV(DictFrom(<<>>, items))

----------------------------------------------------------------------------
(* Python strings *)

DigitChars == <<"0", "1", "2", "3", "4", "5", "6", "7", "8", "9">>

\* str(n) of an int
RECURSIVE IntStr(_)
IntStr(n) ==
    IF n < 0 THEN <<"-">> \o IntStr(0 - n)
    ELSE IF n < 10 THEN <<DigitChars[n + 1]>>
    ELSE IntStr(n \div 10) \o <<DigitChars[(n % 10) + 1]>>

\* s.replace(' ', '_')
ReplaceSpace(s) == [i \in 1..Len(s) |-> IF s[i] = " " THEN "_" ELSE s[i]]

LowerChar(c) ==
    CASE c = "A" -> "a" [] c = "B" -> "b" [] c = "L" -> "l"
      [] c = "X" -> "x" [] c = "Y" -> "y" [] OTHER -> c

\* s.lower()
Lower(s) == [i \in 1..Len(s) |-> LowerChar(s[i])]

\* a in b, for two str
Contains(b, a) ==
    \E i \in 0..(Len(b) - Len(a)) : SubSeq(b, i + 1, i + Len(a)) = a

----------------------------------------------------------------------------
(* _flatten_yaml *)

\* the entries a list element contributes (lines 81-90)
ListItemEntries(new_key, i, item) ==
    IF IsDict(item)
    THEN [j \in 1..Len(item.items) |->
            <<new_key \o <<"[">> \o IntStr(i) \o <<"]", ".">>
                \o ReplaceSpace(item.items[j][1]),
              item.items[j][2]>>]
    ELSE << <<new_key \o <<"[">> \o IntStr(i) \o <<"]">>, item>> >>

RECURSIVE _flatten_yaml(_, _, _)

\* the entries one (k, v) of data contributes (lines 72-92)
EntryItems(k0, v, parent_key, sep) ==
    LET k == ReplaceSpace(k0)
        new_key == IF parent_key # <<>> THEN parent_key \o sep \o k ELSE k
    IN  IF IsDict(v) THEN _flatten_yaml(v, new_key, sep).items
        ELSE IF IsList(v)
        THEN Concat([i \in 1..Len(v.elems) |->
                        ListItemEntries(new_key, i, v.elems[i])])
        ELSE << <<new_key, v>> >>

_flatten_yaml(data, parent_key, sep) ==
    dict(Concat([i \in 1..Len(data.items) |->
                    EntryItems(data.items[i][1], data.items[i][2],
                               parent_key, sep)]))

Flatten(data) == _flatten_yaml(data, <<>>, <<".">>)

----------------------------------------------------------------------------
(* str(), repr() and yaml.dump() *)

RECURSIVE Join(_, _)
Join(ss, sep) ==
    IF ss = <<>> THEN <<>>
    ELSE IF Len(ss) = 1 THEN ss[1]
    ELSE ss[1] \o sep \o Join(Tail(ss), sep)

\* repr(v)
RECURSIVE PyRepr(_)
PyRepr(v) ==
    CASE v.t = "none" -> <<"N", "o", "n", "e">>
      [] v.t = "int" -> IntStr(v.n)
      [] v.t = "str" -> <<"'">> \o v.s \o <<"'">>
      [] v.t = "dict" ->
            <<"{">> \o Join([i \in 1..Len(v.items) |->
                                <<"'">> \o v.items[i][1] \o <<"'", ":", " ">>
                                    \o PyRepr(v.items[i][2])], <<",", " ">>)
                \o <<"}">>
      [] v.t = "list" ->
            <<"[">> \o Join([i \in 1..Len(v.elems) |-> PyRepr(v.elems[i])],
                            <<",", " ">>) \o <<"]">>

\* str(v): a str is itself, anything else its repr
str(v) == IF v.t = "str" THEN v ELSE StrV(PyRepr(v))

\* the characters of the model in code point order
Alphabet ==
    <<"\n", " ", "'", ",", "-", ".", "0", "1", "2", "3", "4", "5", "6", "7",
      "8", "9", ":", "A", "B", "L", "X", "Y", "[", "]", "_", "a", "b", "e",
      "l", "n", "o", "p", "t", "u", "v", "x", "y", "{", "}">>

Ord(c) == CHOOSE i \in 1..Len(Alphabet) : Alphabet[i] = c

\* a < b for two str
RECURSIVE StrLess(_, _)
StrLess(a, b) ==
    IF b = <<>> THEN FALSE
    ELSE IF a = <<>> THEN TRUE
    ELSE IF Head(a) = Head(b) THEN StrLess(Tail(a), Tail(b))
    ELSE Ord(Head(a)) < Ord(Head(b))

\* sorted(items) of a dict with str keys
RECURSIVE SortItems(_)
SortItems(items) ==
    IF items = <<>> THEN <<>>
    ELSE LET m == CHOOSE i \in 1..Len(items) :
                    \A j \in 1..Len(items) :
                        j # i => StrLess(items[i][1], items[j][1])
         IN  <<items[m]>> \o
             SortItems([j \in 1..(Len(items) - 1) |->
                            IF j < m THEN items[j] ELSE items[j + 1]])

IsDigits(s) == s # <<>> /\ \A i \in 1..Len(s) : s[i] \in {DigitChars[j] : j \in 1..10}

\* a scalar as yaml.dump writes it
ScalarText(v) ==
    CASE v.t = "none" -> <<"n", "u", "l", "l">>
      [] v.t = "int" -> IntStr(v.n)
      [] v.t = "str" ->
            IF v.s = <<>> \/ IsDigits(v.s) THEN <<"'">> \o v.s \o <<"'">>
            ELSE v.s

IsEmptyContainer(v) ==
    (v.t = "dict" /\ v.items = <<>>) \/ (v.t = "list" /\ v.elems = <<>>)

FlowText(v) ==
    IF IsScalar(v) THEN ScalarText(v)
    ELSE IF v.t = "dict" THEN <<"{", "}">> ELSE <<"[", "]">>

Indent(lines) == [i \in 1..Len(lines) |-> <<" ", " ">> \o lines[i]]

\* the lines of a non-empty container in block style
RECURSIVE BlockLines(_)
BlockLines(v) ==
    IF v.t = "dict"
    THEN LET its == SortItems(v.items)
         IN  Concat([i \in 1..Len(its) |->
                LET k == its[i][1]
                    w == its[i][2]
                IN  IF IsScalar(w) \/ IsEmptyContainer(w)
                    THEN <<k \o <<":", " ">> \o FlowText(w)>>
                    ELSE IF w.t = "dict"
                    THEN <<k \o <<":">>>> \o Indent(BlockLines(w))
                    ELSE <<k \o <<":">>>> \o BlockLines(w)])
    ELSE Concat([i \in 1..Len(v.elems) |->
                LET w == v.elems[i]
                IN  IF IsScalar(w) \/ IsEmptyContainer(w)
                    THEN <<<<"-", " ">> \o FlowText(w)>>
                    ELSE LET ls == BlockLines(w)
                         IN  <<<<"-", " ">> \o ls[1]>> \o Indent(Tail(ls))])

\* yaml.dump(v, default_flow_style=False) of a dict or a list
yaml_dump(v) ==
    LET lines == IF IsEmptyContainer(v) THEN <<FlowText(v)>> ELSE BlockLines(v)
    IN  StrV(Concat([i \in 1..Len(lines) |-> lines[i] \o <<"\n">>]))

----------------------------------------------------------------------------
(* The node: its slots and what a handler leaves behind *)

YAML_FILE == <<"y", "a", "m", "l", "_", "f", "i", "l", "e">>
KEY_FILTER == <<"k", "e", "y", "_", "f", "i", "l", "t", "e", "r">>
YAML_DATA == <<"y", "a", "m", "l", "_", "d", "a", "t", "a">>
STATUS_MESSAGE == <<"s", "t", "a", "t", "u", "s", "_", "m", "e", "s", "s", "a", "g", "e">>

\* the parameters __init__ adds, in order
FixedNames == <<YAML_FILE, KEY_FILTER, YAML_DATA, STATUS_MESSAGE>>

Range(seq) == {seq[i] : i \in 1..Len(seq)}

\* a str the code only writes or passes on whole (a path, a status text)
TextV(s) == [t |-> "text", s |-> s]

NO_FILE == TextV("No YAML file specified")
LOADED_OK == TextV("YAML file loaded successfully")
NOT_A_DICT == TextV("YAML file must contain a dictionary at the root level")
ErrorStatus(msg) == TextV("Error loading YAML file: " \o msg)

\* str(e) of the exception that open() or yaml.safe_load() raises
ExcText(o) ==
    IF o.k = "missing" THEN "[Errno 2] No such file or directory: 'doc.yaml'"
    ELSE "mapping values are not allowed here"

\* does_name_exist that finds no name
NameNeverExists(params, name) == FALSE

\* BaseNode.does_name_exist
does_name_exist(params, name) == name \in Range(params)

\* BaseNode.add_parameter
add_parameter(params, name) == Append(params, name)

\* d[k] = v on parameter_values / parameter_output_values
SetValue(f, k, v) == [x \in (DOMAIN f) \cup {k} |-> IF x = k THEN v ELSE f[x]]

\* the state a handler works on
State ==
    [parameters |-> parameters, status_message |-> status_message,
     yaml_data |-> yaml_data, slot_values |-> slot_values,
     yaml_dictionary |-> yaml_dictionary, yaml_list |-> yaml_list,
     raised |-> "none", modified |-> {}, added |-> {}, removed |-> {}]

\* _purge_old_parameters with the three names assigned to
\* valid_parameter_names instead of added to it
PurgeAllButThree(st, valid_parameter_names) ==
    LET valid == {YAML_FILE, YAML_DATA, STATUS_MESSAGE}
        gone == {n \in Range(st.parameters) : n \notin valid}
    IN  [st EXCEPT !.parameters = SelectSeq(st.parameters, LAMBDA n : n \in valid),
                   !.slot_values = [n \in (DOMAIN @) \ gone |-> @[n]],
                   !.removed = @ \cup gone]

\* _purge_old_parameters: the state after it, with the names it removed in
\* removed (the set it returns).  self.parameters gives a new list at each
\* use, so that removing while iterating skips no parameter.
_purge_old_parameters(st, valid_parameter_names) ==
    LET valid == valid_parameter_names \cup {YAML_FILE, YAML_DATA, STATUS_MESSAGE}
        gone == {n \in Range(st.parameters) : n \notin valid}
    IN  [st EXCEPT !.parameters = SelectSeq(st.parameters, LAMBDA n : n \in valid),
                   !.slot_values = [n \in (DOMAIN @) \ gone |-> @[n]],
                   !.removed = @ \cup gone]

\* {k: v for k, v in flattened_items.items() if key_filter.lower() in k.lower()}
FilterItems(d, kf) ==
    DictV(SelectSeq(d.items, LAMBDA it : Contains(Lower(it[1]), Lower(kf.s))))

----------------------------------------------------------------------------
(* YAMLLoaderNode *)

OUTPUT_PREFIX == <<"o", "u", "t", "p", "u", "t", "_">>

\* the while loop that makes param_name unique within the pass
RECURSIVE NextFreeName(_, _, _)
NextFreeName(base_name, used_names, counter) ==
    LET param_name == base_name \o <<"_">> \o IntStr(counter)
    IN  IF param_name \in used_names
        THEN NextFreeName(base_name, used_names, counter + 1)
        ELSE param_name

ParamName(key, used_names) ==
    LET base_name == OUTPUT_PREFIX \o key
    IN  IF base_name \in used_names
        THEN NextFreeName(base_name, used_names, 1)
        ELSE base_name

\* one round of the loop over flattened_items: create the slot if it does
\* not exist, store str(value), report the name
CreateOrUpdate(st, param_name, value) ==
    LET exists == does_name_exist(st.parameters, param_name)
    IN  [st EXCEPT
            !.parameters = IF exists THEN @ ELSE add_parameter(@, param_name),
            !.added = IF exists THEN @ ELSE @ \cup {param_name},
            !.slot_values = SetValue(@, param_name, str(value)),
            !.modified = @ \cup {param_name}]

\* the loop over flattened_items.items()
RECURSIVE OutputLoop(_, _, _)
OutputLoop(st, items, used_names) ==
    IF items = <<>> THEN st
    ELSE LET param_name == ParamName(Head(items)[1], used_names)
         IN  OutputLoop(CreateOrUpdate(st, param_name, Head(items)[2]),
                        Tail(items), used_names \cup {param_name})

\* flattened_items after the optional filter
FlattenedItems(doc, kf) ==
    IF Truthy(kf) THEN FilterItems(Flatten(doc), kf) ELSE Flatten(doc)

\* the pass without its purge
PurgeSkipped(st) == st

\* the purge of the pass: valid_parameter_names holds the four fixed names
PurgeBeforeLoop(st) == _purge_old_parameters(st, Range(FixedNames))

\* the branch for an unset yaml_file, with a purge put before it
NoFilePurges(st) ==
    [PurgeBeforeLoop(st) EXCEPT !.status_message = NO_FILE,
                                !.modified = {STATUS_MESSAGE}]

\* the branch "if yaml_file is None" of both nodes: the status is written
\* and reported, and the handler returns
NoFileSpecified(st) ==
    [st EXCEPT !.status_message = NO_FILE, !.modified = {STATUS_MESSAGE}]

\* YAMLLoaderNode.after_value_set for yaml_file or key_filter; o is what
\* open() and yaml.safe_load() give
after_value_set(st, yf, kf, o) ==
    IF yf = NoneV
    THEN NoFileSpecified(st)
    ELSE IF o.k # "doc"
    THEN [st EXCEPT !.status_message = ErrorStatus(ExcText(o)),
                    !.modified = {STATUS_MESSAGE},
                    !.raised = IF o.k = "missing" THEN "FileNotFoundError"
                               ELSE "YAMLError"]
    ELSE IF ~IsDict(o.doc)
    THEN [st EXCEPT !.status_message = NOT_A_DICT, !.modified = {STATUS_MESSAGE}]
    ELSE LET flattened_items == FlattenedItems(o.doc, kf)
             looped == OutputLoop(PurgeBeforeLoop(st), flattened_items.items, {})
         IN  [looped EXCEPT !.yaml_data = yaml_dump(flattened_items),
                            !.status_message = LOADED_OK,
                            !.modified = @ \cup {YAML_DATA, STATUS_MESSAGE}]

\* YAMLLoaderNode.process: the same pass, with no modified_parameters_set
process(st, yf, kf, o) == [after_value_set(st, yf, kf, o) EXCEPT !.modified = {}]

\* after_value_set for any other parameter, with the purge of a pass in it
OtherPurges(st, name) == PurgeBeforeLoop(st)

\* after_value_set for any other parameter
after_value_set_other(st, name) ==
    IF name = STATUS_MESSAGE THEN [st EXCEPT !.modified = {STATUS_MESSAGE}] ELSE st

----------------------------------------------------------------------------
(* NEW_YAMLLoaderNode *)

\* the exception _load_yaml_file raises, or "none"
_load_yaml_file(o) ==
    IF o.k = "missing" THEN "FileNotFoundError"
    ELSE IF o.k = "malformed" THEN "ValueError"
    ELSE IF IsDict(o.doc) \/ IsList(o.doc) THEN "none"
    ELSE "Exception"

\* what "for index, item in enumerate(self.yaml_list, start=1)" iterates
\* over: the keys of a dict, the elements of a list
IterItems(c) ==
    IF IsDict(c) THEN [i \in 1..Len(c.items) |-> StrV(c.items[i][1])]
    ELSE c.elems

\* f"{index}_{item}"
IndexedName(index, item) == IntStr(index) \o <<"_">> \o str(item).s

\* self.yaml_list[item]: the value, or the exception
Subscript(c, item) ==
    IF IsDict(c)
    THEN [exc |-> "none", v |-> c.items[Lookup(c, item.s)][2]]
    ELSE IF item.t = "int"
    THEN LET n == Len(c.elems)
             i == IF item.n < 0 THEN item.n + n ELSE item.n
         IN  IF i \in 0..(n - 1) THEN [exc |-> "none", v |-> c.elems[i + 1]]
             ELSE [exc |-> "IndexError", v |-> NoneV]
    ELSE [exc |-> "TypeError", v |-> NoneV]

\* the loop over self.yaml_list, from position index on
RECURSIVE IndexedLoop(_, _, _)
IndexedLoop(st, c, index) ==
    IF index > Len(IterItems(c)) THEN st
    ELSE LET item == IterItems(c)[index]
             param_name == IndexedName(index, item)
             exists == does_name_exist(st.parameters, param_name)
             st1 == [st EXCEPT
                        !.parameters = IF exists THEN @
                                       ELSE add_parameter(@, param_name),
                        !.added = IF exists THEN @ ELSE @ \cup {param_name}]
             got == Subscript(c, item)
         IN  IF got.exc # "none" THEN [st1 EXCEPT !.raised = got.exc]
             ELSE IndexedLoop(
                    [st1 EXCEPT !.slot_values = SetValue(@, param_name, got.v),
                                !.modified = @ \cup {param_name}],
                    c, index + 1)

IndexedNames(c) == {IndexedName(i, IterItems(c)[i]) : i \in 1..Len(IterItems(c))}

\* the purge that ends the pass; its result goes to modified_parameters_set
PurgeAfterLoop(st, c) ==
    LET purged == _purge_old_parameters(st, Range(FixedNames) \cup IndexedNames(c))
    IN  [purged EXCEPT !.modified = @ \cup purged.removed]

\* NEW_YAMLLoaderNode.after_value_set for yaml_file or key_filter
new_after_value_set(st, yf, kf, o) ==
    IF yf = NoneV
    THEN NoFileSpecified(st)
    ELSE IF _load_yaml_file(o) # "none"
    THEN [st EXCEPT !.raised = _load_yaml_file(o)]
    ELSE LET dictionary == IF IsDict(o.doc) THEN o.doc ELSE st.yaml_dictionary
             list0 == IF IsList(o.doc) THEN o.doc ELSE st.yaml_list
             list1 == IF Truthy(dictionary) THEN Flatten(dictionary) ELSE list0
             st1 == [st EXCEPT !.yaml_dictionary = dictionary,
                               !.yaml_list = list1]
         IN  IF Truthy(kf) /\ ~IsDict(list1)
             THEN [st1 EXCEPT !.raised = "AttributeError"]
             ELSE LET list2 == IF Truthy(kf) THEN FilterItems(list1, kf)
                               ELSE list1
                      st2 == [st1 EXCEPT !.yaml_list = list2,
                                         !.yaml_data = yaml_dump(list2),
                                         !.modified = {YAML_DATA}]
                      looped == IndexedLoop(st2, list2, 1)
                  IN  IF looped.raised # "none" THEN looped
                      ELSE PurgeAfterLoop(looped, list2)

\* NEW_YAMLLoaderNode.process
new_process(st) == st

\* NEW_YAMLLoaderNode.after_value_set for any other parameter
new_after_value_set_other(st, name) == st

----------------------------------------------------------------------------
(* The documents a pass may find in the file, and the filters *)

\* {"a": 1, "b": 2}
DocAB ==
    DictV(<<<<<<"a">>, IntV(1)>>, <<<<"b">>, IntV(2)>>>>)

\* {"a": 1}
DocA ==
    DictV(<<<<<<"a">>, IntV(1)>>>>)

\* {"a": 2}
DocA2 ==
    DictV(<<<<<<"a">>, IntV(2)>>>>)

\* {"a b": 1, "a_b": 2}
DocCollide ==
    DictV(<<<<<<"a", " ", "b">>, IntV(1)>>, <<<<"a", "_", "b">>, IntV(2)>>>>)

\* {}
DocEmpty ==
    DictV(<<>>)

\* {"L": [{"x": {"y": 1}}, 2]}
DocNested ==
    DictV(<<<<<<"L">>, ListV(<<DictV(<<<<<<"x">>, DictV(<<<<<<"y">>, IntV(1)>>>>)>>>>), IntV(2)>>)>>>>)

\* ["v"]
DocListStr ==
    ListV(<<StrV(<<"v">>)>>)

\* [0]
DocListZero ==
    ListV(<<IntV(0)>>)

\* the bare scalar v
DocScalar ==
    StrV(<<"v">>)

Documents ==
    {DocAB, DocA, DocA2, DocCollide, DocEmpty, DocNested, DocListStr, DocListZero, DocScalar}

Unread == [k |-> "unread", doc |-> NoneV]

\* what open() and yaml.safe_load() can give for the path in yaml_file
LoadOutcomes ==
    {[k |-> "missing", doc |-> NoneV], [k |-> "malformed", doc |-> NoneV]}
        \cup {[k |-> "doc", doc |-> d] : d \in Documents}

\* the values of key_filter: unset, empty, "a", "b", "L"
Filters == {NoneV, StrV(<<>>), StrV(<<"a">>), StrV(<<"b">>), StrV(<<"L">>)}

\* the values of yaml_file: unset, or a path
Paths == {NoneV, TextV("doc.yaml")}

----------------------------------------------------------------------------
(* The documents _flatten_yaml is applied to: every dict of at most        *)
(* MaxNodes nodes (scalars and containers) over RawKeys and Scalars, and   *)
(* the documents the specification gives as examples                       *)

MaxNodes == 4

\* the raw keys: "a b", "a_b", "L", and "a<TAB>b"
RawKeys == {<<"a", " ", "b">>, <<"a", "_", "b">>, <<"L">>, <<"a", "\t", "b">>}

Scalars == {IntV(1), StrV(<<"v">>)}

\* the sequences of m pairwise distinct keys
KeySeqs(m) ==
    {ks \in [1..m -> RawKeys] : \A i, j \in 1..m : i # j => ks[i] # ks[j]}

RECURSIVE DocsOfSize(_)
RECURSIVE Forests(_)

\* the sequences of documents that have n nodes together
Forests(n) ==
    IF n = 0 THEN {<<>>}
    ELSE UNION {{<<d>> \o f : d \in DocsOfSize(s), f \in Forests(n - s)} :
                    s \in 1..n}

\* the documents of n nodes
DocsOfSize(n) ==
    IF n = 1 THEN Scalars \cup {DictV(<<>>), ListV(<<>>)}
    ELSE LET forest == Forests(n - 1)
         IN  {ListV(f) : f \in forest}
             \cup UNION {{DictV([i \in 1..m |-> <<ks[i], f[i]>>]) :
                            ks \in KeySeqs(m),
                            f \in {g \in forest : Len(g) = m}} :
                         m \in 1..Cardinality(RawKeys)}

\* {"l": [{"x": {"y": 1}}]}
ExampleNestedInList ==
    DictV(<<<<<<"l">>, ListV(<<DictV(<<<<<<"x">>, DictV(<<<<<<"y">>, IntV(1)>>>>)>>>>)>>)>>>>)

\* {"a": {"b": 1}, "list": [{"x": 1}, 2]}
ExampleKeyShape ==
    DictV(<<<<<<"a">>, DictV(<<<<<<"b">>, IntV(1)>>>>)>>, <<<<"l", "i", "s", "t">>, ListV(<<DictV(<<<<<<"x">>, IntV(1)>>>>), IntV(2)>>)>>>>)

\* {"my key": 5}
ExampleWhitespace ==
    DictV(<<<<<<"m", "y", " ", "k", "e", "y">>, IntV(5)>>>>)

\* {"a": {}, "b": []}
ExampleEmpty ==
    DictV(<<<<<<"a">>, DictV(<<>>)>>, <<<<"b">>, ListV(<<>>)>>>>)

FlattenExamples ==
    {ExampleNestedInList, ExampleKeyShape, ExampleWhitespace, ExampleEmpty}

----------------------------------------------------------------------------
(* ExampleNode: the connection callbacks and the validation *)

\* the most incoming connections the host holds for one parameter
MaxConnections == 2

\* the parameters __init__ adds, in order
ExampleParameters ==
    <<"free_text", "dropdown", "integer_slider", "reversed_text", "random_float">>

\* the parameters whose allowed_modes hold ParameterMode.INPUT
ExampleInputs == {"free_text", "dropdown", "integer_slider"}

\* the values of free_text: unset, empty, "v"
FreeTexts == {NoneV, StrV(<<>>), StrV(<<"v">>)}

EMPTY_ERROR == TextV("The 'free_text' parameter is empty.")
NO_CONNECTION_ERROR ==
    TextV("The 'free_text' parameter does not have an incoming connection.")

\* validate_before_workflow_run has not run since the last event
NotValidated == [t |-> "unrun"]

\* d.get(k, default)
DictGet(d, k, default) == IF k \in DOMAIN d THEN d[k] ELSE default

\* ExampleNode.after_incoming_connection
after_incoming_connection(ic, target_parameter) ==
    SetValue(ic, target_parameter, TRUE)

\* ExampleNode.after_incoming_connection_removed
after_incoming_connection_removed(ic, target_parameter) ==
    SetValue(ic, target_parameter, FALSE)

\* ExampleNode.validate_before_workflow_run: the list of errors, or None
validate_before_workflow_run(free_text_value, ic) ==
    LET errors ==
            (IF ~Truthy(free_text_value) THEN <<EMPTY_ERROR>> ELSE <<>>)
            \o (IF ~DictGet(ic, "free_text", FALSE)
                THEN <<NO_CONNECTION_ERROR>> ELSE <<>>)
    IN  IF errors # <<>> THEN ListV(errors) ELSE NoneV

\* ExampleNode after __init__, with no connection
ExampleNodeInit ==
    /\ incoming_connections = [n \in {"free_text"} |-> FALSE]
    /\ free_text = NoneV
    /\ connections = [p \in ExampleInputs |-> 0]
    /\ validation = NotValidated

----------------------------------------------------------------------------
(* The node as a state machine *)

NodeInit ==
    /\ parameters = FixedNames
    /\ yaml_file = NoneV
    /\ key_filter = NoneV
    /\ status_message = NoneV
    /\ yaml_data = NoneV
    /\ slot_values = [n \in {} |-> NoneV]
    /\ yaml_dictionary = DictV(<<>>)
    /\ yaml_list = ListV(<<>>)
    /\ op = "init"
    /\ loaded = Unread
    /\ raised = "none"
    /\ modified = {}
    /\ added = {}
    /\ removed = {}
    /\ last_good = [k |-> "none", doc |-> NoneV, filter |-> NoneV]

Init ==
    /\ node \in {"old", "new"}
    /\ NodeInit
    /\ fdoc = DictV(<<>>)
    /\ fres = NoneV
    /\ fpc = "idle"
    /\ ExampleNodeInit

\* a pass succeeded: the file was read, held an accepted root, nothing raised
Succeeded(nd, yf, o, r) ==
    /\ yf # NoneV
    /\ o.k = "doc"
    /\ r.raised = "none"
    /\ nd = "old" => IsDict(o.doc)

\* the node after a handler that left r
Leave(r, name, yf, kf, o) ==
    /\ parameters' = r.parameters
    /\ status_message' = r.status_message
    /\ yaml_data' = r.yaml_data
    /\ slot_values' = r.slot_values
    /\ yaml_dictionary' = r.yaml_dictionary
    /\ yaml_list' = r.yaml_list
    /\ raised' = r.raised
    /\ modified' = r.modified
    /\ added' = r.added
    /\ removed' = r.removed
    /\ op' = name
    /\ loaded' = o
    /\ last_good' = IF Succeeded(node, yf, o, r)
                    THEN [k |-> "pass", doc |-> o.doc, filter |-> kf]
                    ELSE last_good
    /\ UNCHANGED <<node, flatVars, exampleVars>>

\* what reading the file can give: nothing is read when yaml_file is None
Reads(yf) == IF yf = NoneV THEN {Unread} ELSE LoadOutcomes

AfterValueSet(st, yf, kf, o) ==
    IF node = "old" THEN after_value_set(st, yf, kf, o)
    ELSE new_after_value_set(st, yf, kf, o)

\* the property yaml_file is set to v: the value is stored, then the
\* callback runs
SetYamlFile(v) ==
    \E o \in Reads(v) :
        /\ yaml_file' = v
        /\ key_filter' = key_filter
        /\ Leave(AfterValueSet(State, v, key_filter, o), "set_yaml_file",
                 v, key_filter, o)

\* the property key_filter is set to f
SetKeyFilter(f) ==
    \E o \in Reads(yaml_file) :
        /\ key_filter' = f
        /\ yaml_file' = yaml_file
        /\ Leave(AfterValueSet(State, yaml_file, f, o), "set_key_filter",
                 yaml_file, f, o)

\* the engine runs the node
Process ==
    /\ UNCHANGED <<yaml_file, key_filter>>
    /\ IF node = "old"
       THEN \E o \in Reads(yaml_file) :
                Leave(process(State, yaml_file, key_filter, o), "process",
                      yaml_file, key_filter, o)
       ELSE Leave(new_process(State), "process", NoneV, key_filter, Unread)

\* after_value_set runs for a parameter other than yaml_file and key_filter
SetOther(name) ==
    /\ UNCHANGED <<yaml_file, key_filter>>
    /\ Leave(IF node = "old" THEN after_value_set_other(State, name)
             ELSE new_after_value_set_other(State, name),
             IF name = STATUS_MESSAGE THEN "set_status_message" ELSE "set_other",
             NoneV, key_filter, Unread)

Next ==
    \/ \E v \in Paths : SetYamlFile(v)
    \/ \E f \in Filters : SetKeyFilter(f)
    \/ Process
    \/ \E name \in Range(parameters) \ {YAML_FILE, KEY_FILTER} : SetOther(name)

Spec == Init /\ [][Next]_vars

----------------------------------------------------------------------------
(* _flatten_yaml on its own: one call on each document *)

FlattenInit ==
    /\ node = "old"
    /\ NodeInit
    /\ \/ fdoc \in FlattenExamples
       \/ \E n \in 0..(MaxNodes - 1) : \E f \in Forests(n) :
            \E ks \in KeySeqs(Len(f)) :
                fdoc = DictV([i \in 1..Len(f) |-> <<ks[i], f[i]>>])
    /\ fres = NoneV
    /\ fpc = "call"
    /\ ExampleNodeInit

CallFlatten ==
    /\ fpc = "call"
    /\ fres' = Flatten(fdoc)
    /\ fpc' = "done"
    /\ UNCHANGED <<fdoc, nodeVars, exampleVars>>

FlattenNext == CallFlatten

FlattenSpec == FlattenInit /\ [][FlattenNext]_vars

----------------------------------------------------------------------------
(* ExampleNode as a state machine: the host makes and removes connections  *)
(* to the input parameters, sets free_text, and validates before a run     *)

ExampleInit ==
    /\ node = "example"
    /\ parameters = ExampleParameters
    /\ yaml_file = NoneV
    /\ key_filter = NoneV
    /\ status_message = NoneV
    /\ yaml_data = NoneV
    /\ slot_values = [n \in {} |-> NoneV]
    /\ yaml_dictionary = DictV(<<>>)
    /\ yaml_list = ListV(<<>>)
    /\ op = "init"
    /\ loaded = Unread
    /\ raised = "none"
    /\ modified = {}
    /\ added = {}
    /\ removed = {}
    /\ last_good = [k |-> "none", doc |-> NoneV, filter |-> NoneV]
    /\ fdoc = DictV(<<>>)
    /\ fres = NoneV
    /\ fpc = "idle"
    /\ ExampleNodeInit

\* the host connects an output to the input parameter p and tells the node
Connect(p) ==
    /\ connections[p] < MaxConnections
    /\ connections' = [connections EXCEPT ![p] = @ + 1]
    /\ incoming_connections' = after_incoming_connection(incoming_connections, p)
    /\ validation' = NotValidated
    /\ UNCHANGED <<free_text, nodeVars, flatVars>>

\* the host removes a connection to p and tells the node
Disconnect(p) ==
    /\ connections[p] > 0
    /\ connections' = [connections EXCEPT ![p] = @ - 1]
    /\ incoming_connections' =
          after_incoming_connection_removed(incoming_connections, p)
    /\ validation' = NotValidated
    /\ UNCHANGED <<free_text, nodeVars, flatVars>>

\* the property free_text is set to v
SetFreeText(v) ==
    /\ free_text' = v
    /\ validation' = NotValidated
    /\ UNCHANGED <<incoming_connections, connections, nodeVars, flatVars>>

\* the host validates the node before it runs the workflow
Validate ==
    /\ validation' = validate_before_workflow_run(free_text, incoming_connections)
    /\ UNCHANGED <<incoming_connections, free_text, connections, nodeVars, flatVars>>

ExampleNext ==
    \/ \E p \in ExampleInputs : Connect(p)
    \/ \E p \in ExampleInputs : Disconnect(p)
    \/ \E v \in FreeTexts : SetFreeText(v)
    \/ Validate

ExampleSpec == ExampleInit /\ [][ExampleNext]_vars

----------------------------------------------------------------------------
(* What the claims speak of *)

\* the dynamically created (managed) slots that exist
Managed == Range(parameters) \ Range(FixedNames)

PassOps == {"set_yaml_file", "set_key_filter", "process"}

\* the last handler was a pass that read the file
PassRan == op \in PassOps /\ loaded.k # "unread"

\* the last handler was a pass that succeeded
PassSucceeded ==
    PassRan /\ Succeeded(node, yaml_file, loaded, [raised |-> raised])

\* the last handler was a pass that failed
PassFailed == PassRan /\ ~PassSucceeded

\* the slot names a pass of YAMLLoaderNode derives from the keys of d
OutputNames(d) == {OUTPUT_PREFIX \o k : k \in KeySet(d)}

\* the value of the slot name, None when it has none
SlotValue(name) ==
    IF name \in DOMAIN slot_values THEN slot_values[name] ELSE NoneV

OutA == OUTPUT_PREFIX \o <<"a">>
OutB == OUTPUT_PREFIX \o <<"b">>
OutAB == OUTPUT_PREFIX \o <<"a", "_", "b">>
OutAB1 == OUTPUT_PREFIX \o <<"a", "_", "b", "_", "1">>

----------------------------------------------------------------------------
(* C1 *)

\* C1: in YAMLLoaderNode the managed slots that exist are exactly the slots
\* named after the filtered flattened keys of the most recent pass that
\* succeeded (none before the first such pass); no slot of an earlier pass
\* survives unless its key is still produced.
C1_ManagedIsLastGood ==
    node = "old" =>
        Managed = IF last_good.k = "pass"
                  THEN OutputNames(FlattenedItems(last_good.doc, last_good.filter))
                  ELSE {}

\* a pass on {"a": 2} has succeeded after one that had produced output_b
C1_Witness ==
    /\ node = "old"
    /\ PassSucceeded
    /\ loaded.doc = DocA2
    /\ OutB \in removed
    /\ Managed = {OutA}

----------------------------------------------------------------------------
(* C2 *)

\* C2: when a pass that succeeded is followed by a pass that finds the same
\* document under the same filter, the second pass calls neither
\* add_parameter nor remove_parameter_element, and leaves the managed slots
\* and their values as the first pass left them.
C2_RepeatedPassNoChurn ==
    [][(/\ PassSucceeded
        /\ op' \in PassOps
        /\ loaded' = loaded
        /\ yaml_file' = yaml_file
        /\ key_filter' = key_filter)
       => (/\ added' = {}
           /\ removed' = {}
           /\ Managed' = Managed
           /\ slot_values' = slot_values)]_vars

----------------------------------------------------------------------------
(* C3 *)

\* the name a pass gives the slot of key k of its result d
SlotNameOf(d, k) ==
    IF node = "old" THEN OUTPUT_PREFIX \o k
    ELSE IndexedName(Lookup(d, k), StrV(k))

\* the value a pass stores for v
StoredValue(v) == IF node = "old" THEN str(v) ELSE v

\* C3: when a pass that succeeded on a mapping is followed by a pass that
\* succeeds on a mapping, every slot the first pass made for a key that the
\* second result no longer holds is gone, and every key of the second result
\* has its slot, holding the value of the second document.
C3_StaleSlotsGo ==
    [][(/\ PassSucceeded /\ IsDict(loaded.doc)
        /\ PassSucceeded' /\ IsDict(loaded'.doc))
       => LET before == FlattenedItems(loaded.doc, key_filter)
              after == FlattenedItems(loaded'.doc, key_filter')
          IN  /\ \A k \in KeySet(before) \ KeySet(after) :
                    SlotNameOf(before, k) \notin Range(parameters')
              /\ \A k \in KeySet(after) :
                    /\ SlotNameOf(after, k) \in Range(parameters')
                    /\ SlotNameOf(after, k) \in DOMAIN slot_values'
                    /\ slot_values'[SlotNameOf(after, k)] =
                          StoredValue(after.items[Lookup(after, k)][2])]_vars

----------------------------------------------------------------------------
(* C4 *)

\* C4: in both nodes each of yaml_file, key_filter, yaml_data and
\* status_message names exactly one slot in every state, and no handler
\* removes or creates a slot of one of these names.
C4_FixedSlotsStay ==
    /\ \A n \in Range(FixedNames) :
          Cardinality({i \in 1..Len(parameters) : parameters[i] = n}) = 1
    /\ Range(FixedNames) \cap removed = {}
    /\ Range(FixedNames) \cap added = {}

\* a pass of NEW_YAMLLoaderNode has created a slot and purged another
C4_Witness ==
    /\ node = "new"
    /\ PassSucceeded
    /\ added # {}
    /\ removed # {}

----------------------------------------------------------------------------
(* C5 *)

\* C5: a pass of YAMLLoaderNode on {"a b": 1, "a_b": 2}, whose two entries
\* both give the candidate name output_a_b, leaves two managed slots,
\* output_a_b holding "1" and output_a_b_1 holding "2".
C5_CollisionGetsSuffix ==
    (node = "old" /\ PassSucceeded /\ loaded.doc = DocCollide
        /\ ~Truthy(key_filter))
    => /\ Managed = {OutAB, OutAB1}
       /\ SlotValue(OutAB) = StrV(<<"1">>)
       /\ SlotValue(OutAB1) = StrV(<<"2">>)

----------------------------------------------------------------------------
(* C6 *)

\* C6: in both nodes a pass that fails leaves the managed slots and their
\* values as they were before it.
C6_FailedPassKeepsSlots ==
    [][PassFailed' => (parameters' = parameters /\ slot_values' = slot_values)]_vars

----------------------------------------------------------------------------
(* C7 *)

\* the file is missing, malformed, or its root is neither a dict nor a list
FailureKind ==
    \/ loaded.k \in {"missing", "malformed"}
    \/ loaded.k = "doc" /\ ~IsDict(loaded.doc) /\ ~IsList(loaded.doc)

\* status_message holds an error text
StatusIsError ==
    status_message # NoneV /\ status_message \notin {NO_FILE, LOADED_OK}

\* C7: after a pass that met one of the three failure kinds, status_message
\* holds an error message and the pass has raised.
C7_FailureIsWrittenAndRaised ==
    (PassRan /\ FailureKind) => (raised # "none" /\ StatusIsError)

----------------------------------------------------------------------------
(* C8 *)

\* C8: in both nodes yaml_data changes only in a pass that succeeds; a pass
\* that fails leaves it as it was.
C8_YamlDataOnlyOnSuccess ==
    [][yaml_data' # yaml_data => PassSucceeded']_vars

----------------------------------------------------------------------------
(* C9 *)

\* C9: every value of the result of _flatten_yaml is a scalar, and
\* {"l": [{"x": {"y": 1}}]} gives the one entry l[1].x.y: 1.
C9_ValuesAreScalars ==
    fpc = "done" =>
        /\ \A i \in 1..Len(fres.items) : IsScalar(fres.items[i][2])
        /\ fdoc = ExampleNestedInList =>
              fres = DictV(<< <<<<"l", "[", "1", "]", ".", "x", ".", "y">>, IntV(1)>> >>)

----------------------------------------------------------------------------
(* C10 *)

\* C10: no empty dict and no empty list, at whatever depth of the document,
\* gives an entry of the result of _flatten_yaml, and {"a": {}, "b": []}
\* gives no entry.
C10_EmptyContainersGiveNothing ==
    fpc = "done" =>
        /\ \A i \in 1..Len(fres.items) : ~IsEmptyContainer(fres.items[i][2])
        /\ fdoc = ExampleEmpty => fres = DictV(<<>>)

----------------------------------------------------------------------------
(* C11 *)

\* the scalar leaves of doc in depth-first pre-order, each with its path:
\* the keys of the mappings on the way joined by ".", and "[i]" attached for
\* the 1-based position i in each sequence on the way
RECURSIVE PathEntries(_, _)
PathEntries(doc, prefix) ==
    IF IsDict(doc)
    THEN Concat([i \in 1..Len(doc.items) |->
            LET k == ReplaceSpace(doc.items[i][1])
            IN  PathEntries(doc.items[i][2],
                            IF prefix = <<>> THEN k ELSE prefix \o <<".">> \o k)])
    ELSE IF IsList(doc)
    THEN Concat([i \in 1..Len(doc.elems) |->
            PathEntries(doc.elems[i], prefix \o <<"[">> \o IntStr(i) \o <<"]">>)])
    ELSE << <<prefix, doc>> >>

\* C11: the result of _flatten_yaml lists the scalar leaves of the document
\* in depth-first pre-order, each under the key made of the mapping keys on
\* its path joined by "." with "[i]" attached for each sequence position, and
\* {"a": {"b": 1}, "list": [{"x": 1}, 2]} gives a.b: 1, list[1].x: 1,
\* list[2]: 2 in that order.
C11_KeysInPreorder ==
    fpc = "done" =>
        /\ fres.items = PathEntries(fdoc, <<>>)
        /\ fdoc = ExampleKeyShape =>
              fres.items =
                << <<<<"a", ".", "b">>, IntV(1)>>,
                   <<<<"l", "i", "s", "t", "[", "1", "]", ".", "x">>, IntV(1)>>,
                   <<<<"l", "i", "s", "t", "[", "2", "]">>, IntV(2)>> >>

----------------------------------------------------------------------------
(* C12 *)

WhitespaceChars == {" ", "\t", "\n"}

\* C12: no key of the result of _flatten_yaml holds a whitespace character
\* (the separators and the index suffixes hold none, so one could only come
\* from a mapping key), and {"my key": 5} gives my_key: 5.
C12_NoWhitespaceInKeys ==
    fpc = "done" =>
        /\ \A i \in 1..Len(fres.items) :
              \A j \in 1..Len(fres.items[i][1]) :
                  fres.items[i][1][j] \notin WhitespaceChars
        /\ fdoc = ExampleWhitespace =>
              fres = DictV(<< <<<<"m", "y", "_", "k", "e", "y">>, IntV(5)>> >>)

----------------------------------------------------------------------------
(* C13 *)

\* a occurs in b when upper and lower case are not told apart
ContainsNoCase(b, a) ==
    \E i \in 0..(Len(b) - Len(a)) :
        \A j \in 1..Len(a) : LowerChar(b[i + j]) = LowerChar(a[j])

\* the entries of the flattened document d that the filter f retains
Retain(d, f) ==
    IF f.t = "str" /\ f.s # <<>>
    THEN SelectSeq(Flatten(d).items, LAMBDA it : ContainsNoCase(it[1], f.s))
    ELSE Flatten(d).items

\* the managed slots in the order of self.parameters
ManagedSeq == SelectSeq(parameters, LAMBDA n : n \notin Range(FixedNames))

\* the entries the last pass retained: YAMLLoaderNode makes one slot
\* output_<key> per entry, in order; NEW_YAMLLoaderNode keeps them in
\* self.yaml_list
Retained ==
    IF node = "old"
    THEN [i \in 1..Len(ManagedSeq) |->
            <<SubSeq(ManagedSeq[i], Len(OUTPUT_PREFIX) + 1, Len(ManagedSeq[i])),
              SlotValue(ManagedSeq[i])>>]
    ELSE IF IsDict(yaml_list) THEN yaml_list.items ELSE yaml_list.elems

\* C13: a pass that reads a mapping does not fail, and retains exactly the
\* flattened entries whose key holds the filter as a substring, case not
\* told apart, in their order; all of them when the filter is empty or unset.
C13_FilterRetains ==
    (PassRan /\ loaded.k = "doc" /\ IsDict(loaded.doc)) =>
        /\ raised = "none"
        /\ Retained =
              [i \in 1..Len(Retain(loaded.doc, key_filter)) |->
                  <<Retain(loaded.doc, key_filter)[i][1],
                    StoredValue(Retain(loaded.doc, key_filter)[i][2])>>]

----------------------------------------------------------------------------
(* C14 *)

\* C14: a pass that reads a sequence succeeds as one on a mapping does (it
\* raises nothing and writes no error status), and leaves one managed slot
\* for each element of a sequence of scalars, holding that element.
C14_SequenceRootAccepted ==
    (PassRan /\ loaded.k = "doc" /\ IsList(loaded.doc)) =>
        /\ raised = "none"
        /\ ~StatusIsError
        /\ Len(ManagedSeq) = Len(loaded.doc.elems)
        /\ \A i \in 1..Len(loaded.doc.elems) :
              \E n \in Managed :
                  SlotValue(n) \in {loaded.doc.elems[i], str(loaded.doc.elems[i])}

----------------------------------------------------------------------------
(* C15 *)

\* the handlers that are given a modified_parameters_set
CallbackOps == {"set_yaml_file", "set_key_filter"}

\* the slots whose value the step has written anew
Rewritten ==
    {n \in DOMAIN slot_values' :
        n \notin DOMAIN slot_values \/ slot_values'[n] # slot_values[n]}

\* C15: when after_value_set has run for yaml_file or key_filter,
\* modified_parameters_set holds the name of every slot it created, of every
\* slot it removed and of every slot whose value it changed, and yaml_data
\* and status_message when it changed them.
C15_ModifiedNamesAll ==
    [][op' \in CallbackOps =>
        /\ added' \subseteq modified'
        /\ removed' \subseteq modified'
        /\ Rewritten \subseteq modified'
        /\ yaml_data' # yaml_data => YAML_DATA \in modified'
        /\ status_message' # status_message => STATUS_MESSAGE \in modified']_vars

----------------------------------------------------------------------------
(* C16 *)

\* the last handler was after_value_set for yaml_file or key_filter, or
\* process of YAMLLoaderNode (process of NEW_YAMLLoaderNode is no pass)
PassHandlerRan == op \in CallbackOps \/ (op = "process" /\ node = "old")

\* C16: after each pass status_message tells how that pass ended: "No YAML
\* file specified" when yaml_file is unset, "YAML file loaded successfully"
\* when the pass succeeded, an error text when it failed.
C16_StatusIsOfLastPass ==
    PassHandlerRan =>
        /\ yaml_file = NoneV => status_message = NO_FILE
        /\ PassSucceeded => status_message = LOADED_OK
        /\ PassFailed => StatusIsError

----------------------------------------------------------------------------
(* C17 *)

\* every value of the document is a scalar
FlatMapping == \A i \in 1..Len(fdoc.items) : IsScalar(fdoc.items[i][2])

\* C17: the result of _flatten_yaml has one entry for each scalar leaf: a
\* mapping whose values are all scalars gives as many entries as it has
\* keys, with the values in the order of the document, also when two keys
\* are normalised to the same key.
C17_NoDeduplication ==
    (fpc = "done" /\ FlatMapping) =>
        /\ Len(fres.items) = Len(fdoc.items)
        /\ \A i \in 1..Len(fres.items) : fres.items[i][2] = fdoc.items[i][2]

----------------------------------------------------------------------------
(* C18 *)

\* the name n ends with the key k
EndsWith(n, k) ==
    Len(n) >= Len(k) /\ SubSeq(n, Len(n) - Len(k) + 1, Len(n)) = k

\* n is a slot name made from the key k alone: k itself or output_<k>
NamedByKey(n, k) == n = k \/ n = OUTPUT_PREFIX \o k

\* C18: when two passes that succeed on mappings follow each other, every
\* key that both retain has one and the same slot in both, whatever the
\* other keys and the filter are, and that slot is named by the key alone
\* (the key itself, or output_ and the key).
C18_NameFromKeyOnly ==
    [][(/\ PassSucceeded /\ IsDict(loaded.doc)
        /\ PassSucceeded' /\ IsDict(loaded'.doc))
       => \A k \in KeySet(FlattenedItems(loaded.doc, key_filter))
                    \cap KeySet(FlattenedItems(loaded'.doc, key_filter')) :
            /\ \E n \in Managed \cap Managed' : EndsWith(n, k)
            /\ \E n \in Managed' : NamedByKey(n, k)]_vars

----------------------------------------------------------------------------
(* C19 *)

\* NEW_YAMLLoaderNode as __init__ leaves it
FreshState ==
    [parameters |-> FixedNames, status_message |-> NoneV,
     yaml_data |-> NoneV, slot_values |-> [n \in {} |-> NoneV],
     yaml_dictionary |-> DictV(<<>>), yaml_list |-> ListV(<<>>),
     raised |-> "none", modified |-> {}, added |-> {}, removed |-> {}]

\* what the pass just made gives on a node that has made no pass before
AloneResult == new_after_value_set(FreshState, yaml_file, key_filter, loaded)

\* C19: in NEW_YAMLLoaderNode a pass that raises nothing ends as the pass
\* on the same document and filter ends on a node that has loaded nothing
\* before: that one raises nothing either, and leaves the same managed
\* slots, the same values and the same yaml_data.
C19_ResultOfCurrentDocumentOnly ==
    (node = "new" /\ PassSucceeded) =>
        /\ raised = AloneResult.raised
        /\ Managed = Range(AloneResult.parameters) \ Range(FixedNames)
        /\ slot_values = AloneResult.slot_values
        /\ yaml_data = AloneResult.yaml_data

----------------------------------------------------------------------------
(* C20 *)

\* C20: after a pass that has succeeded on a mapping there is one managed
\* slot for each retained entry, and it holds str() of the value that the
\* flattened current document has for its key.
C20_SlotsHoldCurrentStrings ==
    (PassSucceeded /\ IsDict(loaded.doc)) =>
        LET d == FlattenedItems(loaded.doc, key_filter)
        IN  /\ Cardinality(Managed) = Len(d.items)
            /\ \A k \in KeySet(d) :
                  SlotValue(SlotNameOf(d, k)) = str(d.items[Lookup(d, k)][2])

----------------------------------------------------------------------------
(* C21 *)

\* the documents the file may hold when process runs: the one process has
\* read, or any when it reads none
DocsAtProcess == IF loaded'.k = "unread" THEN Reads(yaml_file) ELSE {loaded'}

\* C21: process leaves the managed slots, their values, yaml_data and
\* status_message as after_value_set for yaml_file or key_filter would have
\* left them from the same state with the same document and filter.
C21_ProcessAsAfterValueSet ==
    [][op' = "process" =>
        \A o \in DocsAtProcess :
            LET r == AfterValueSet(State, yaml_file, key_filter, o)
            IN  /\ parameters' = r.parameters
                /\ slot_values' = r.slot_values
                /\ yaml_data' = r.yaml_data
                /\ status_message' = r.status_message]_vars

----------------------------------------------------------------------------
(* C22 *)

\* C22: a pass that reads a mapping of which the filter retains no entry
\* (or which flattens to nothing) raises nothing, creates no slot, leaves no
\* managed slot and writes the success status.
C22_NothingRetainedNoSlots ==
    (PassRan /\ loaded.k = "doc" /\ IsDict(loaded.doc)
        /\ Retain(loaded.doc, key_filter) = <<>>)
    => /\ raised = "none"
       /\ added = {}
       /\ Managed = {}
       /\ status_message = LOADED_OK

----------------------------------------------------------------------------
(* C23 *)

\* the number of entries the last pass has named
EntriesNamed ==
    IF node = "old" THEN Len(FlattenedItems(loaded.doc, key_filter).items)
    ELSE Len(IterItems(yaml_list))

\* C23: no name is in self.parameters twice (add_parameter is never called
\* for a name that exists), every stored value belongs to a managed slot
\* that exists, and a pass that has succeeded has given its entries pairwise
\* distinct names: as many managed slots as entries.
C23_RegistryNotMisused ==
    /\ \A i, j \in 1..Len(parameters) : i # j => parameters[i] # parameters[j]
    /\ DOMAIN slot_values \subseteq Managed
    /\ PassSucceeded => Cardinality(Managed) = EntriesNamed

\* a pass of NEW_YAMLLoaderNode has written to a slot that existed before it
\* and has created another
C23_Witness ==
    /\ node = "new"
    /\ PassSucceeded
    /\ added # {}
    /\ \E n \in Managed \ added : n \in modified

----------------------------------------------------------------------------
(* C24 *)

\* C24: a pass that finds yaml_file unset (after_value_set of either node,
\* process of YAMLLoaderNode) writes "No YAML file specified" to
\* status_message, raises nothing, creates and removes no slot, and leaves
\* the slots, their values and yaml_data as they were.
C24_UnsetFileOnlyStatus ==
    [][((op' \in CallbackOps \/ (op' = "process" /\ node = "old"))
            /\ yaml_file' = NoneV)
       => /\ status_message' = NO_FILE
          /\ raised' = "none"
          /\ added' = {}
          /\ removed' = {}
          /\ parameters' = parameters
          /\ slot_values' = slot_values
          /\ yaml_data' = yaml_data]_vars

\* yaml_file has been unset on a node that has managed slots and yaml_data
\* from an earlier pass
C24_Witness ==
    /\ op = "set_yaml_file"
    /\ yaml_file = NoneV
    /\ status_message = NO_FILE
    /\ Managed # {}
    /\ DOMAIN slot_values # {}
    /\ yaml_data # NoneV

----------------------------------------------------------------------------
(* C25 *)

\* the handler was after_value_set for another parameter than yaml_file and
\* key_filter
OtherOps == {"set_other", "set_status_message"}

\* C25: after_value_set for a parameter other than yaml_file and key_filter
\* creates and removes no slot and leaves the slots, their values, yaml_data
\* and status_message as they were; modified_parameters_set ends empty,
\* except that YAMLLoaderNode puts status_message in it when the parameter
\* is status_message.
C25_OtherParameterNoEffect ==
    [][op' \in OtherOps
       => /\ added' = {}
          /\ removed' = {}
          /\ raised' = "none"
          /\ parameters' = parameters
          /\ slot_values' = slot_values
          /\ yaml_data' = yaml_data
          /\ status_message' = status_message
          /\ modified' = IF node = "old" /\ op' = "set_status_message"
                         THEN {STATUS_MESSAGE} ELSE {}]_vars

\* after_value_set of YAMLLoaderNode has run for status_message on a node
\* that has managed slots
C25_Witness ==
    /\ node = "old"
    /\ op = "set_status_message"
    /\ modified = {STATUS_MESSAGE}
    /\ Managed # {}
    /\ yaml_data # NoneV

----------------------------------------------------------------------------
(* C26 *)

\* the errors of the last validation (none when it returned None)
ValidationErrors ==
    IF validation = NoneV THEN {}
    ELSE {validation.elems[i] : i \in 1..Len(validation.elems)}

\* C26: when validate_before_workflow_run has run, its result holds the
\* error "does not have an incoming connection" exactly when the host holds
\* no incoming connection to free_text, and it is None exactly when
\* free_text is non-empty and the host holds at least one such connection.
C26_ValidationFollowsConnections ==
    validation # NotValidated =>
        /\ NO_CONNECTION_ERROR \in ValidationErrors
              <=> connections["free_text"] = 0
        /\ validation = NoneV
              <=> (Truthy(free_text) /\ connections["free_text"] >= 1)

====
